---- MODULE Spec2Model ----
(***************************************************************************)
(* Model of the photogrammetry wrapper scripts:                            *)
(*   create-masks.py   (mask-batch runner, process pool)                   *)
(*   create-models.py  (model-batch runner around RealityScan)             *)
(*   create-preview.py (Blender preview renderer)                          *)
(*   logger.py         (setup_logger)                                      *)
(* Each script is a separate program; each has its own specification.      *)
(***************************************************************************)
EXTENDS Integers, Sequences, FiniteSets, TLC

\* ---------------------------------------------------------------- bounds
MaxStems == 2
MaxFiles == 3
MaxWorkers == 2
MaxExitCode == 1
MaxArgs == 4
MaxScripts == 2
MaxCalls == 5

VARIABLES
    \* create-masks.py
    mpc,            \* position of main: "start", "pool", "complete", "returned", "exited"
    dirEntries,     \* the entries of the input directory
    overwrite,      \* --overwrite
    workers,        \* number of pool processes
    image_files,    \* sorted list of the image files found
    masks,          \* output folder: stem -> [exists, writer] of <stem>.mask.png
    tstate,         \* per task: "queued", "running" (past the exists check), "done"
    tresult,        \* per task: status returned by process_image ("none" before)
    runs,           \* per task: number of times process_image was started
    sawExists,      \* per task: value of output_file.exists() at its check
    magickCalls,    \* per task: number of invocations of the magick command
    consumed,       \* number of results the main loop has consumed
    successful, skipped, failed,
    errReports,     \* inputs echoed as "Failed to process ..." (stderr)
    finalReport,    \* lines echoed after the loop
    mexit           \* exit status of the process once mpc = "exited"

masksVars == <<mpc, dirEntries, overwrite, workers, image_files, masks, tstate,
               tresult, runs, sawExists, magickCalls, consumed, successful,
               skipped, failed, errReports, finalReport, mexit>>

VARIABLES
    xpc,        \* "start", "call", "try", "spawn", "scan", "report", "returned",
                \* "crashed", "exited"
    xImages,    \* number of image files in the input directory
    exeExists,  \* RealityScan.exe is installed
    outFiles,   \* which of the expected output files exist
    rsRan,      \* the external process was started and has ended
    rsExit,     \* its exit status
    rsReturned, \* run_realityscan has returned
    success,    \* its return value
    xmsgs,      \* messages echoed by main
    xexit       \* exit status of the process once xpc = "exited"

modelsVars == <<xpc, xImages, exeExists, outFiles, rsRan, rsExit, rsReturned,
                success, xmsgs, xexit>>

VARIABLES
    ppc,          \* "start", "check", "remove", "import", "meshes", "render", "exited"
    argv,         \* sys.argv
    model_path, output_dir, poverwrite, make_video,   \* result of parse_args
    out_path,     \* [dir, stem, suffix]
    fs0,          \* preview files on disk before the run
    fs,           \* preview files on disk: set of [path, data]
    madeDirs,     \* directories made by os.makedirs
    loaded,       \* the model was imported into the scene
    renderMode,   \* "none", "video", "still": the render branch taken
    perror,       \* SystemExit message, "" if none
    pexit         \* exit status once ppc = "exited"

previewVars == <<ppc, argv, model_path, output_dir, poverwrite, make_video,
                 out_path, fs0, fs, madeDirs, loaded, renderMode, perror, pexit>>

VARIABLES
    lhandlers,   \* logging's registry: logger name -> sequence of handlers
    llevel,      \* logger name -> level
    logsDir,     \* the directory "logs" exists
    logFiles,    \* log files opened in "logs"
    nextHandler, \* identity of the next handler object created
    lreturned,   \* logger name -> number of setup_logger calls that returned it
    lcalls       \* number of calls made

loggerVars == <<lhandlers, llevel, logsDir, logFiles, nextHandler, lreturned,
                lcalls>>

\* the state of the other scripts, which a step of one script leaves alone
notMasks == <<modelsVars, previewVars, loggerVars>>
notModels == <<masksVars, previewVars, loggerVars>>
notPreview == <<masksVars, modelsVars, loggerVars>>
notLogger == <<masksVars, modelsVars, previewVars>>
vars == <<masksVars, modelsVars, previewVars, loggerVars>>

\* ------------------------------------------------------ create-masks.py
Stems == 1..MaxStems
Suffixes == {".JPG", ".jpeg", ".jpg", ".png"}

\* f.suffix.lower()
Lower(sfx) == IF sfx = ".JPG" THEN ".jpg" ELSE sfx

\* position of a suffix in string order ("J" < "j", ".jpe" < ".jpg" < ".png")
SuffixRank(sfx) ==
    CASE sfx = ".JPG" -> 1 [] sfx = ".jpeg" -> 2 [] sfx = ".jpg" -> 3 [] OTHER -> 4

\* Path ordering used by sorted()
PathLess(a, b) ==
    \/ a.stem < b.stem
    \/ a.stem = b.stem /\ SuffixRank(a.suffix) < SuffixRank(b.suffix)

RECURSIVE Sorted(_)
Sorted(S) ==
    IF S = {} THEN <<>>
    ELSE LET m == CHOOSE x \in S : \A y \in S \ {x} : PathLess(x, y)
         IN <<m>> \o Sorted(S \ {m})

\* the comprehension of main: regular files with a .jpg/.jpeg suffix
ImageFiles(entries) ==
    {f \in entries : f.isFile /\ Lower(f.suffix) \in {".jpg", ".jpeg"}}

\* output_folder / f"{input_file.stem}.mask.png": the folder is the same for
\* every task of a run, so the path is determined by the stem
OutputFile(f) == f.stem

ShouldSkipInverted(exists, ow) == exists /\ ow
ShouldSkip(exists, ow) == exists /\ ~ow

\* the if/elif/else of the result loop
TallyDropSkipped(status, c) ==
    IF status = "success" THEN [c EXCEPT !.successful = @ + 1]
    ELSE IF status = "skipped" THEN c
    ELSE [c EXCEPT !.failed = @ + 1]
Tally(status, c) ==
    IF status = "success" THEN [c EXCEPT !.successful = @ + 1]
    ELSE IF status = "skipped" THEN [c EXCEPT !.skipped = @ + 1]
    ELSE [c EXCEPT !.failed = @ + 1]

AllEntries == [stem : Stems, suffix : Suffixes, isFile : BOOLEAN]
EntryName(e) == <<e.stem, e.suffix>>

NoMask == [exists |-> FALSE, writer |-> 0]
OldMask == [exists |-> TRUE, writer |-> 0]

Tasks == 1..Len(image_files)
InFlight == {i \in Tasks : tstate[i] = "running"}

\* main, lines 88-112: list, sort, early return when nothing was found
MasksList ==
    /\ mpc = "start"
    /\ LET files == Sorted(ImageFiles(dirEntries))
           n == Len(files)
       IN /\ image_files' = files
          /\ mpc' = IF n = 0 THEN "returned" ELSE "pool"
          /\ tstate' = [i \in 1..n |-> "queued"]
          /\ tresult' = [i \in 1..n |-> "none"]
          /\ runs' = [i \in 1..n |-> 0]
          /\ sawExists' = [i \in 1..n |-> FALSE]
          /\ magickCalls' = [i \in 1..n |-> 0]
    /\ UNCHANGED <<dirEntries, overwrite, workers, masks, consumed, successful,
                   skipped, failed, errReports, finalReport, mexit>>
    /\ UNCHANGED notMasks

\* a pool worker takes the next queued task and runs process_image up to the
\* point where the magick command is about to be started (lines 22-44)
TaskCheck(i) ==
    /\ mpc = "pool"
    /\ i \in Tasks
    /\ tstate[i] = "queued"
    /\ \A j \in 1..(i-1) : tstate[j] # "queued"
    /\ Cardinality(InFlight) < workers
    /\ runs' = [runs EXCEPT ![i] = @ + 1]
    /\ LET ex == masks[OutputFile(image_files[i])].exists
       IN /\ sawExists' = [sawExists EXCEPT ![i] = ex]
          /\ IF ShouldSkip(ex, overwrite)
             THEN /\ tstate' = [tstate EXCEPT ![i] = "done"]
                  /\ tresult' = [tresult EXCEPT ![i] = "skipped"]
             ELSE \/ /\ tstate' = [tstate EXCEPT ![i] = "running"]
                     /\ tresult' = tresult
                  \* mkdir raises: except Exception -> 'failed'
                  \/ /\ tstate' = [tstate EXCEPT ![i] = "done"]
                     /\ tresult' = [tresult EXCEPT ![i] = "failed"]
    /\ UNCHANGED <<mpc, dirEntries, overwrite, workers, image_files, masks,
                   magickCalls, consumed, successful, skipped, failed,
                   errReports, finalReport, mexit>>
    /\ UNCHANGED notMasks

\* subprocess.run(cmd, check=True) and the return (lines 46-53)
TaskMagick(i) ==
    /\ mpc = "pool"
    /\ i \in Tasks
    /\ tstate[i] = "running"
    /\ magickCalls' = [magickCalls EXCEPT ![i] = @ + 1]
    /\ tstate' = [tstate EXCEPT ![i] = "done"]
    /\ \/ /\ masks' = [masks EXCEPT ![OutputFile(image_files[i])] =
                                        [exists |-> TRUE, writer |-> i]]
          /\ tresult' = [tresult EXCEPT ![i] = "success"]
       \* CalledProcessError
       \/ /\ masks' = masks
          /\ tresult' = [tresult EXCEPT ![i] = "failed"]
    /\ UNCHANGED <<mpc, dirEntries, overwrite, workers, image_files, runs,
                   sawExists, consumed, successful, skipped, failed,
                   errReports, finalReport, mexit>>
    /\ UNCHANGED notMasks

\* one iteration of the loop over pool.imap: results arrive in input order
Consume ==
    /\ mpc = "pool"
    /\ consumed < Len(image_files)
    /\ tstate[consumed + 1] = "done"
    /\ LET st == tresult[consumed + 1]
           c == Tally(st, [successful |-> successful, skipped |-> skipped,
                           failed |-> failed])
       IN /\ successful' = c.successful
          /\ skipped' = c.skipped
          /\ failed' = c.failed
          /\ errReports' = IF st \notin {"success", "skipped"}
                           THEN Append(errReports, consumed + 1)
                           ELSE errReports
    /\ consumed' = consumed + 1
    /\ UNCHANGED <<mpc, dirEntries, overwrite, workers, image_files, masks,
                   tstate, tresult, runs, sawExists, magickCalls, finalReport,
                   mexit>>
    /\ UNCHANGED notMasks

\* lines 127-132
ReportLines(s, k, f) ==
    <<[line |-> "complete", n |-> 0], [line |-> "successful", n |-> s]>>
    \o (IF k > 0 THEN <<[line |-> "skipped", n |-> k]>> ELSE <<>>)
    \o (IF f > 0 THEN <<[line |-> "failed", n |-> f]>> ELSE <<>>)

MasksReport ==
    /\ mpc = "pool"
    /\ consumed = Len(image_files)
    /\ finalReport' = ReportLines(successful, skipped, failed)
    /\ mpc' = "complete"
    /\ UNCHANGED <<dirEntries, overwrite, workers, image_files, masks, tstate,
                   tresult, runs, sawExists, magickCalls, consumed, successful,
                   skipped, failed, errReports, mexit>>
    /\ UNCHANGED notMasks

\* main returns None on every path; the click command object called at
\* module level discards the return value and exits the process with 0
MainReturnStatus(f) == 0

MasksExit ==
    /\ mpc \in {"complete", "returned"}
    /\ mpc' = "exited"
    /\ mexit' = MainReturnStatus(failed)
    /\ UNCHANGED <<dirEntries, overwrite, workers, image_files, masks, tstate,
                   tresult, runs, sawExists, magickCalls, consumed, successful,
                   skipped, failed, errReports, finalReport>>
    /\ UNCHANGED notMasks

MasksNext ==
    \/ MasksList
    \/ \E i \in Tasks : TaskCheck(i)
    \/ \E i \in Tasks : TaskMagick(i)
    \/ Consume
    \/ MasksReport
    \/ MasksExit

\* ----------------------------------------------------- create-models.py
\* hi_glb, hi_fbx, low_glb, low_fbx, project_file
ExpectedFiles == {"high.glb", "high.fbx", "low.glb", "low.fbx", "rsproj"}
ExitCodes == 0..MaxExitCode

\* main, lines 131-151
ModelsList ==
    /\ xpc = "start"
    /\ IF xImages = 0
       THEN xpc' = "returned" /\ xmsgs' = xmsgs \cup {"No image files found"}
       ELSE xpc' = "call" /\ xmsgs' = xmsgs
    /\ UNCHANGED <<xImages, exeExists, outFiles, rsRan, rsExit, rsReturned,
                   success, xexit>>
    /\ UNCHANGED notModels

\* run_realityscan, lines 21-70: mkdir/resolve are outside the try block, an
\* error there is an uncaught exception
RsPrepare ==
    /\ xpc = "call"
    /\ xpc' \in {"try", "crashed"}
    /\ UNCHANGED <<xImages, exeExists, outFiles, rsRan, rsExit, rsReturned,
                   success, xmsgs, xexit>>
    /\ UNCHANGED notModels

\* lines 72-81
RsCheckExe ==
    /\ xpc = "try"
    /\ IF ~exeExists
       THEN /\ rsReturned' = TRUE /\ success' = FALSE /\ xpc' = "report"
       ELSE /\ UNCHANGED <<rsReturned, success>> /\ xpc' = "spawn"
    /\ UNCHANGED <<xImages, exeExists, outFiles, rsRan, rsExit, xmsgs, xexit>>
    /\ UNCHANGED notModels

\* line 83: subprocess.run without check=True never raises CalledProcessError;
\* a failure to start the process is caught by "except Exception"
RsSubprocess ==
    /\ xpc = "spawn"
    /\ \/ /\ rsRan' = TRUE
          /\ rsExit' \in ExitCodes
          /\ outFiles' \in {S \in SUBSET ExpectedFiles : outFiles \subseteq S}
          /\ xpc' = "scan"
          /\ UNCHANGED <<rsReturned, success>>
       \/ /\ rsReturned' = TRUE /\ success' = FALSE /\ xpc' = "report"
          /\ UNCHANGED <<rsRan, rsExit, outFiles>>
    /\ UNCHANGED <<xImages, exeExists, xmsgs, xexit>>
    /\ UNCHANGED notModels

\* lines 85-97: the files found are only listed
RsScan ==
    /\ xpc = "scan"
    /\ rsReturned' = TRUE
    /\ success' = TRUE
    /\ xpc' = "report"
    /\ UNCHANGED <<xImages, exeExists, outFiles, rsRan, rsExit, xmsgs, xexit>>
    /\ UNCHANGED notModels

\* main, lines 155-159
ModelsReport ==
    /\ xpc = "report"
    /\ xmsgs' = xmsgs \cup {IF success THEN "3D model generation completed successfully"
                                      ELSE "3D model generation failed"}
    /\ xpc' = "returned"
    /\ UNCHANGED <<xImages, exeExists, outFiles, rsRan, rsExit, rsReturned,
                   success, xexit>>
    /\ UNCHANGED notModels

\* line 163: the click command object discards main's return value (None or
\* 1) and exits with 0; an uncaught exception ends the interpreter with 1
ModelsExit ==
    /\ xpc \in {"returned", "crashed"}
    /\ xexit' = IF xpc = "crashed" THEN 1 ELSE 0
    /\ xpc' = "exited"
    /\ UNCHANGED <<xImages, exeExists, outFiles, rsRan, rsExit, rsReturned,
                   success, xmsgs>>
    /\ UNCHANGED notModels

ModelsNext ==
    \/ ModelsList
    \/ RsPrepare
    \/ RsCheckExe
    \/ RsSubprocess
    \/ RsScan
    \/ ModelsReport
    \/ ModelsExit

\* ---------------------------------------------------- create-preview.py
Tokens == {"--", "--input", "--output", "--overwrite", "--video", "--help",
           "m.glb", "m.txt"}

RECURSIVE SeqsUpTo(_)
SeqsUpTo(n) ==
    IF n = 0 THEN {<<>>}
    ELSE LET shorter == SeqsUpTo(n - 1)
         IN shorter \cup {Append(q, t) : q \in {r \in shorter : Len(r) = n - 1},
                                         t \in Tokens}

InSeq(x, q) == \E k \in 1..Len(q) : q[k] = x

\* argv[argv.index("--")+1:] if "--" in argv else []
AfterDashes(av) ==
    IF InSeq("--", av)
    THEN LET k == CHOOSE k \in 1..Len(av) :
                      av[k] = "--" /\ \A j \in 1..(k-1) : av[j] # "--"
         IN SubSeq(av, k + 1, Len(av))
    ELSE <<>>

\* the while loop of parse_args; None is "", exit is "" while the loop runs
RECURSIVE ParseLoop(_, _, _)
ParseLoop(av, i, st) ==
    IF i > Len(av) THEN st
    ELSE LET a == av[i] IN
         IF a \in {"--input", "-i"} THEN
             IF i + 1 > Len(av)
             THEN [st EXCEPT !.exit = "Error: --input requires a value"]
             ELSE ParseLoop(av, i + 2, [st EXCEPT !.input_path = av[i + 1]])
         ELSE IF a \in {"--output", "-o"} THEN
             IF i + 1 > Len(av)
             THEN [st EXCEPT !.exit = "Error: --output requires a value"]
             ELSE ParseLoop(av, i + 2, [st EXCEPT !.output_dir = av[i + 1]])
         ELSE IF a = "--overwrite" THEN
             ParseLoop(av, i + 1, [st EXCEPT !.overwrite = TRUE])
         ELSE IF a = "--video" THEN
             ParseLoop(av, i + 1, [st EXCEPT !.make_video = TRUE])
         ELSE IF a \in {"--help", "-h"} THEN
             [st EXCEPT !.exit = "help"]
         ELSE ParseLoop(av, i + 1,
                        IF st.input_path = "" THEN [st EXCEPT !.input_path = a]
                        ELSE st)

parse_args(sysargv) ==
    LET st == ParseLoop(AfterDashes(sysargv), 1,
                        [input_path |-> "", output_dir |-> "",
                         overwrite |-> FALSE, make_video |-> FALSE, exit |-> ""])
    IN IF st.exit = "" /\ st.input_path = ""
       THEN [st EXCEPT !.exit = "Error: --input is required"]
       ELSE st

\* os.path.splitext on the names that can occur
SplitStem(name) ==
    CASE name = "m.glb" -> "m" [] name = "m.txt" -> "m" [] OTHER -> name
SplitExt(name) ==
    CASE name = "m.glb" -> ".glb" [] name = "m.txt" -> ".txt" [] OTHER -> ""

\* lines 34-40; without --output the preview lies next to the model (".")
OutPath(mp, od, mv) ==
    [dir |-> IF od # "" THEN od ELSE ".",
     stem |-> SplitStem(mp),
     suffix |-> IF mv THEN "-preview.mp4" ELSE "-preview.png"]

NoPath == [dir |-> "", stem |-> "", suffix |-> ""]

Exists(files, p) == \E f \in files : f.path = p

RemoveSameStem(files, p) ==
    {f \in files : ~(f.path.dir = p.dir /\ f.path.stem = p.stem)}
RemoveFile(files, p) == {f \in files : f.path # p}

PreviewSkipsInverted(ex, ow) == ex /\ ow
PreviewSkips(ex, ow) == ex /\ ~ow

SupportedExt(ext) == ext \in {".obj", ".glb", ".gltf", ".fbx"}

\* "--video" in sys.argv
RenderBranch(sysargv) == IF InSeq("--video", sysargv) THEN "video" ELSE "still"

\* the preview files the run may find on disk
CandidateFiles(av) ==
    LET st == parse_args(av)
    IN IF st.exit # "" THEN {}
       ELSE {[path |-> OutPath(st.input_path, st.output_dir, mv), data |-> "old"] :
                mv \in BOOLEAN}

\* lines 32-41
PreviewParse ==
    /\ ppc = "start"
    /\ LET st == parse_args(argv)
       IN IF st.exit # ""
          THEN /\ ppc' = "exited"
               /\ perror' = st.exit
               /\ pexit' = IF st.exit = "help" THEN 0 ELSE 1
               /\ UNCHANGED <<model_path, output_dir, poverwrite, make_video,
                              out_path, madeDirs>>
          ELSE /\ model_path' = st.input_path
               /\ output_dir' = st.output_dir
               /\ poverwrite' = st.overwrite
               /\ make_video' = st.make_video
               /\ out_path' = OutPath(st.input_path, st.output_dir, st.make_video)
               /\ madeDirs' = madeDirs \cup
                     {OutPath(st.input_path, st.output_dir, st.make_video).dir}
               /\ ppc' = "check"
               /\ UNCHANGED <<perror, pexit>>
    /\ UNCHANGED <<argv, fs0, fs, loaded, renderMode>>
    /\ UNCHANGED notPreview

\* lines 43-46
PreviewSkipCheck ==
    /\ ppc = "check"
    /\ IF PreviewSkips(Exists(fs, out_path), poverwrite)
       THEN ppc' = "exited" /\ pexit' = 0
       ELSE ppc' = "remove" /\ pexit' = pexit
    /\ UNCHANGED <<argv, model_path, output_dir, poverwrite, make_video,
                   out_path, fs0, fs, madeDirs, loaded, renderMode, perror>>
    /\ UNCHANGED notPreview

\* lines 47-51: os.remove, an OSError is ignored
PreviewRemove ==
    /\ ppc = "remove"
    /\ IF Exists(fs, out_path) /\ poverwrite
       THEN fs' \in {RemoveFile(fs, out_path), fs}
       ELSE fs' = fs
    /\ ppc' = "import"
    /\ UNCHANGED <<argv, model_path, output_dir, poverwrite, make_video,
                   out_path, fs0, madeDirs, loaded, renderMode, perror, pexit>>
    /\ UNCHANGED notPreview

\* lines 53-63
PreviewImport ==
    /\ ppc = "import"
    /\ IF SupportedExt(SplitExt(model_path))
       THEN /\ loaded' = TRUE /\ ppc' = "meshes"
            /\ UNCHANGED <<perror, pexit>>
       ELSE /\ perror' = "Unsupported" /\ pexit' = 1 /\ ppc' = "exited"
            /\ loaded' = loaded
    /\ UNCHANGED <<argv, model_path, output_dir, poverwrite, make_video,
                   out_path, fs0, fs, madeDirs, renderMode>>
    /\ UNCHANGED notPreview

\* lines 89-90: the imported scene has mesh objects or not
PreviewMeshCheck ==
    /\ ppc = "meshes"
    /\ \/ /\ ppc' = "render" /\ UNCHANGED <<perror, pexit>>
       \/ /\ perror' = "No mesh objects" /\ pexit' = 1 /\ ppc' = "exited"
    /\ UNCHANGED <<argv, model_path, output_dir, poverwrite, make_video,
                   out_path, fs0, fs, madeDirs, loaded, renderMode>>
    /\ UNCHANGED notPreview

\* lines 149-195: Blender writes the file at out_path or it does not
PreviewRender ==
    /\ ppc = "render"
    /\ renderMode' = RenderBranch(argv)
    /\ \E written \in BOOLEAN :
          /\ fs' = IF written
                   THEN RemoveFile(fs, out_path) \cup
                          {[path |-> out_path, data |-> RenderBranch(argv)]}
                   ELSE fs
          /\ IF Exists(fs', out_path)
             THEN perror' = perror /\ pexit' = 0
             ELSE /\ perror' = IF RenderBranch(argv) = "video"
                               THEN "MP4 not written" ELSE "Image not written"
                  /\ pexit' = 1
    /\ ppc' = "exited"
    /\ UNCHANGED <<argv, model_path, output_dir, poverwrite, make_video,
                   out_path, fs0, madeDirs, loaded>>
    /\ UNCHANGED notPreview

PreviewNext ==
    \/ PreviewParse
    \/ PreviewSkipCheck
    \/ PreviewRemove
    \/ PreviewImport
    \/ PreviewMeshCheck
    \/ PreviewRender

\* ------------------------------------------------------------ logger.py
ScriptNames == 1..MaxScripts
\* a script path is <<directory, file name>>
ScriptPaths == {<<d, n>> : d \in {"bin", "tools"}, n \in ScriptNames}

\* Path(script_path).name
PathName(script_path) == script_path[2]

HasHandlersNever(hs) == FALSE
HasHandlers(hs) == hs # <<>>

FileHandler(id, name) == [id |-> id, kind |-> "file", target |-> <<"logs", name>>]
ConsoleHandler(id) == [id |-> id, kind |-> "console", target |-> <<"stdout", 0>>]

\* setup_logger, lines 6-30, returning the logger
SetupLogger(script_path) ==
    LET script_name == PathName(script_path)
    IN /\ lcalls < MaxCalls
       /\ lcalls' = lcalls + 1
       /\ logsDir' = TRUE
       /\ llevel' = [llevel EXCEPT ![script_name] = "INFO"]
       /\ IF HasHandlers(lhandlers[script_name])
          THEN UNCHANGED <<lhandlers, logFiles, nextHandler>>
          ELSE /\ lhandlers' = [lhandlers EXCEPT ![script_name] =
                                  Append(Append(@, FileHandler(nextHandler, script_name)),
                                         ConsoleHandler(nextHandler + 1))]
               /\ logFiles' = logFiles \cup {script_name}
               /\ nextHandler' = nextHandler + 2
       /\ lreturned' = [lreturned EXCEPT ![script_name] = @ + 1]
       /\ UNCHANGED notLogger

\* setup_logger when logging.FileHandler cannot open the log file: the
\* exception leaves the function before any handler is added
SetupLoggerOpenFails(script_path) ==
    LET script_name == PathName(script_path)
    IN /\ lcalls < MaxCalls
       /\ ~HasHandlers(lhandlers[script_name])
       /\ lcalls' = lcalls + 1
       /\ logsDir' = TRUE
       /\ llevel' = [llevel EXCEPT ![script_name] = "INFO"]
       /\ UNCHANGED <<lhandlers, logFiles, nextHandler, lreturned>>
       /\ UNCHANGED notLogger

LoggerNext ==
    \/ \E sp \in ScriptPaths : SetupLogger(sp)
    \/ \E sp \in ScriptPaths : SetupLoggerOpenFails(sp)

\* ------------------------------------------------------- specifications
\* Each script runs as a process of its own; the state of the other scripts
\* stays as it is.

MasksInit ==
    /\ mpc = "start"
    /\ dirEntries \in {S \in SUBSET AllEntries :
                          /\ Cardinality(S) <= MaxFiles
                          /\ \A a, b \in S : EntryName(a) = EntryName(b) => a = b}
    /\ overwrite \in BOOLEAN
    /\ workers \in 1..MaxWorkers
    /\ masks \in [Stems -> {NoMask, OldMask}]
    /\ image_files = <<>>
    /\ tstate = <<>> /\ tresult = <<>> /\ runs = <<>>
    /\ sawExists = <<>> /\ magickCalls = <<>>
    /\ consumed = 0
    /\ successful = 0 /\ skipped = 0 /\ failed = 0
    /\ errReports = <<>>
    /\ finalReport = <<>>
    /\ mexit = 0
    \* the other scripts are not running
    /\ xpc = "start" /\ xImages = 0 /\ exeExists = FALSE /\ outFiles = {}
    /\ rsRan = FALSE /\ rsExit = 0 /\ rsReturned = FALSE /\ success = FALSE
    /\ xmsgs = {} /\ xexit = 0
    /\ ppc = "start" /\ argv = <<>> /\ fs0 = {} /\ fs = {}
    /\ model_path = "" /\ output_dir = "" /\ poverwrite = FALSE
    /\ make_video = FALSE /\ out_path = NoPath /\ madeDirs = {}
    /\ loaded = FALSE /\ renderMode = "none" /\ perror = "" /\ pexit = 0
    /\ lhandlers = [n \in ScriptNames |-> <<>>]
    /\ llevel = [n \in ScriptNames |-> "NOTSET"]
    /\ logsDir = FALSE /\ logFiles = {} /\ nextHandler = 1
    /\ lreturned = [n \in ScriptNames |-> 0] /\ lcalls = 0

ModelsInit ==
    /\ xpc = "start"
    /\ xImages \in 0..1
    /\ exeExists \in BOOLEAN
    /\ outFiles \in SUBSET ExpectedFiles
    /\ rsRan = FALSE /\ rsExit = 0
    /\ rsReturned = FALSE /\ success = FALSE
    /\ xmsgs = {}
    /\ xexit = 0
    \* the other scripts are not running
    /\ mpc = "start" /\ dirEntries = {} /\ overwrite = FALSE /\ workers = 1
    /\ masks = [s \in Stems |-> NoMask]
    /\ image_files = <<>> /\ tstate = <<>> /\ tresult = <<>> /\ runs = <<>>
    /\ sawExists = <<>> /\ magickCalls = <<>> /\ consumed = 0
    /\ successful = 0 /\ skipped = 0 /\ failed = 0
    /\ errReports = <<>> /\ finalReport = <<>> /\ mexit = 0
    /\ ppc = "start" /\ argv = <<>> /\ fs0 = {} /\ fs = {}
    /\ model_path = "" /\ output_dir = "" /\ poverwrite = FALSE
    /\ make_video = FALSE /\ out_path = NoPath /\ madeDirs = {}
    /\ loaded = FALSE /\ renderMode = "none" /\ perror = "" /\ pexit = 0
    /\ lhandlers = [n \in ScriptNames |-> <<>>]
    /\ llevel = [n \in ScriptNames |-> "NOTSET"]
    /\ logsDir = FALSE /\ logFiles = {} /\ nextHandler = 1
    /\ lreturned = [n \in ScriptNames |-> 0] /\ lcalls = 0

PreviewInit ==
    /\ ppc = "start"
    /\ argv \in SeqsUpTo(MaxArgs)
    /\ fs0 \in SUBSET CandidateFiles(argv)
    /\ fs = fs0
    /\ model_path = "" /\ output_dir = "" /\ poverwrite = FALSE
    /\ make_video = FALSE
    /\ out_path = NoPath
    /\ madeDirs = {}
    /\ loaded = FALSE
    /\ renderMode = "none"
    /\ perror = ""
    /\ pexit = 0
    \* the other scripts are not running
    /\ mpc = "start" /\ dirEntries = {} /\ overwrite = FALSE /\ workers = 1
    /\ masks = [s \in Stems |-> NoMask]
    /\ image_files = <<>> /\ tstate = <<>> /\ tresult = <<>> /\ runs = <<>>
    /\ sawExists = <<>> /\ magickCalls = <<>> /\ consumed = 0
    /\ successful = 0 /\ skipped = 0 /\ failed = 0
    /\ errReports = <<>> /\ finalReport = <<>> /\ mexit = 0
    /\ xpc = "start" /\ xImages = 0 /\ exeExists = FALSE /\ outFiles = {}
    /\ rsRan = FALSE /\ rsExit = 0 /\ rsReturned = FALSE /\ success = FALSE
    /\ xmsgs = {} /\ xexit = 0
    /\ lhandlers = [n \in ScriptNames |-> <<>>]
    /\ llevel = [n \in ScriptNames |-> "NOTSET"]
    /\ logsDir = FALSE /\ logFiles = {} /\ nextHandler = 1
    /\ lreturned = [n \in ScriptNames |-> 0] /\ lcalls = 0

LoggerInit ==
    /\ lhandlers = [n \in ScriptNames |-> <<>>]
    /\ llevel = [n \in ScriptNames |-> "NOTSET"]
    /\ logsDir \in BOOLEAN
    /\ logFiles = {}
    /\ nextHandler = 1
    /\ lreturned = [n \in ScriptNames |-> 0]
    /\ lcalls = 0
    \* the other scripts are not running
    /\ mpc = "start" /\ dirEntries = {} /\ overwrite = FALSE /\ workers = 1
    /\ masks = [s \in Stems |-> NoMask]
    /\ image_files = <<>> /\ tstate = <<>> /\ tresult = <<>> /\ runs = <<>>
    /\ sawExists = <<>> /\ magickCalls = <<>> /\ consumed = 0
    /\ successful = 0 /\ skipped = 0 /\ failed = 0
    /\ errReports = <<>> /\ finalReport = <<>> /\ mexit = 0
    /\ xpc = "start" /\ xImages = 0 /\ exeExists = FALSE /\ outFiles = {}
    /\ rsRan = FALSE /\ rsExit = 0 /\ rsReturned = FALSE /\ success = FALSE
    /\ xmsgs = {} /\ xexit = 0
    /\ ppc = "start" /\ argv = <<>> /\ fs0 = {} /\ fs = {}
    /\ model_path = "" /\ output_dir = "" /\ poverwrite = FALSE
    /\ make_video = FALSE /\ out_path = NoPath /\ madeDirs = {}
    /\ loaded = FALSE /\ renderMode = "none" /\ perror = "" /\ pexit = 0

SpecMasks ==
    /\ MasksInit
    /\ [][MasksNext]_vars

SpecModels ==
    /\ ModelsInit
    /\ [][ModelsNext]_vars

SpecPreview ==
    /\ PreviewInit
    /\ [][PreviewNext]_vars

SpecLogger ==
    /\ LoggerInit
    /\ [][LoggerNext]_vars

\* ------------------------------------------- properties of create-masks.py

CountOf(status) == Cardinality({i \in 1..consumed : tresult[i] = status})

\* C1: every .jpg/.jpeg file of the input directory is processed exactly
\* once and classified as exactly one of success/skipped/failed; the three
\* counters always add up to the number of results consumed, and at
\* "Processing complete!" to the number of image files found.
C1_EveryFileCountedOnce ==
    /\ successful + skipped + failed = consumed
    /\ successful = CountOf("success")
    /\ skipped = CountOf("skipped")
    /\ failed = CountOf("failed")
    /\ \A i \in Tasks :
          /\ runs[i] <= 1
          /\ tstate[i] = "done" => tresult[i] \in {"success", "skipped", "failed"}
    /\ mpc \in {"pool", "complete"} =>
          /\ {image_files[i] : i \in Tasks} =
                {f \in dirEntries :
                    f.isFile /\ f.suffix \in {".jpg", ".jpeg", ".JPG"}}
          /\ Len(image_files) = Cardinality({image_files[i] : i \in Tasks})
    /\ mpc = "complete" =>
          /\ successful + skipped + failed = Len(image_files)
          /\ \A i \in Tasks : runs[i] = 1

C1_Witness ==
    /\ mpc = "complete"
    /\ successful > 0 /\ skipped > 0 /\ failed > 0

\* C2: a task that finds its output mask present while overwrite is unset
\* returns 'skipped' without invoking magick and without touching the mask;
\* magick is invoked only when the mask was absent or overwrite is set.
C2_SkipLeavesMaskAlone ==
    /\ [](\A i \in Tasks :
            /\ (runs[i] > 0 /\ sawExists[i] /\ ~overwrite) =>
                   (tresult[i] = "skipped" /\ magickCalls[i] = 0)
            /\ tresult[i] = "skipped" => (sawExists[i] /\ ~overwrite)
            /\ magickCalls[i] > 0 => (~sawExists[i] \/ overwrite))
    /\ [][\A i \in Tasks :
            (i \in DOMAIN tresult' /\ tresult[i] = "none" /\ tresult'[i] = "skipped")
                => (masks' = masks /\ magickCalls' = magickCalls)]_vars

C2_Witness ==
    \E i \in Tasks :
        /\ tresult[i] = "skipped"
        /\ masks[OutputFile(image_files[i])] = OldMask
        /\ \E j \in Tasks : magickCalls[j] > 0

\* C3: two distinct input files of a run never check or write the same
\* output mask path.
C3_DistinctOutputPaths ==
    \A i, j \in Tasks :
        (i # j /\ runs[i] > 0 /\ runs[j] > 0) =>
            OutputFile(image_files[i]) # OutputFile(image_files[j])

\* C4: failures are reported and the process exits non-zero exactly when
\* some image failed.
C4_FailuresExitNonZero ==
    mpc = "exited" =>
        /\ failed > 0 =>
              /\ Len(errReports) = failed
              /\ [line |-> "failed", n |-> failed] \in
                    {finalReport[k] : k \in 1..Len(finalReport)}
              /\ mexit # 0
        /\ mexit = 0 => failed = 0

\* ------------------------------------------ properties of create-models.py

\* C5: whenever run_realityscan returns False the script reports
\* "3D model generation failed" and the process exits non-zero.
C5_FailureExitsNonZero ==
    (xpc = "exited" /\ rsReturned /\ ~success) =>
        /\ "3D model generation failed" \in xmsgs
        /\ xexit # 0

\* C6: run_realityscan returns True exactly when the run was successful: the
\* executable exists, the process exited with 0 and at least one of the
\* expected output files exists.
C6_TrueIffSuccessful ==
    rsReturned =>
        (success <=> (exeExists /\ rsRan /\ rsExit = 0 /\ outFiles # {}))

\* ----------------------------------------- properties of create-preview.py

Parsed == ppc # "start" /\ out_path # NoPath

\* C7: when the preview exists and --overwrite is not given the script exits
\* with 0 before loading or rendering and the file is neither removed nor
\* modified; an existing preview is removed only under --overwrite.
C7_SkipKeepsPreview ==
    /\ (Parsed /\ Exists(fs0, out_path) /\ ~poverwrite) =>
          /\ fs = fs0
          /\ ~loaded
          /\ renderMode = "none"
          /\ ppc \in {"check", "exited"}
          /\ ppc = "exited" => (pexit = 0 /\ perror = "")
    /\ (\E f \in fs0 : ~Exists(fs, f.path)) => poverwrite

C7_Witness ==
    /\ ppc = "exited" /\ Parsed
    /\ Exists(fs0, out_path) /\ ~poverwrite
    /\ pexit = 0

\* C9: naming and render mode agree: a video is rendered iff the output path
\* ends in -preview.mp4, a still iff it ends in -preview.png, and make_video
\* equals the test "--video" in sys.argv.
C9_NamingMatchesRenderMode ==
    /\ Parsed => (make_video <=> InSeq("--video", argv))
    /\ renderMode = "video" => out_path.suffix = "-preview.mp4"
    /\ renderMode = "still" => out_path.suffix = "-preview.png"

ErrorBeforeRender ==
    ppc = "exited" /\ perror \in {"Unsupported", "No mesh objects"}

\* C10 as stated: after an error exit before rendering the files on disk are
\* unchanged, also under --overwrite.
C10_ErrorLeavesFilesUnchanged ==
    ErrorBeforeRender => fs = fs0

\* C10 amended: after an error exit before rendering no file was created or
\* modified, and the only file that can be missing is the preview at the
\* output path, removed because --overwrite was given.
C10_ErrorRemovesOnlyOverwrittenPreview ==
    ErrorBeforeRender =>
        /\ fs \subseteq fs0
        /\ \A f \in fs0 \ fs : f.path = out_path /\ poverwrite
        /\ ~poverwrite => fs = fs0

C10_Witness ==
    /\ ErrorBeforeRender
    /\ poverwrite
    /\ Exists(fs0, out_path) /\ ~Exists(fs, out_path)
    /\ fs # {}

\* ------------------------------------------------- properties of logger.py

HandlerIds(n) == {lhandlers[n][k].id : k \in 1..Len(lhandlers[n])}

\* C8: a logger returned by setup_logger has exactly two handlers, a file
\* handler on logs/<script_name>.log and a console handler on stdout, however
\* often it was set up; loggers of different script names share no handler.
C8_TwoHandlersPerLogger ==
    /\ \A n \in ScriptNames :
          lreturned[n] > 0 =>
              /\ Len(lhandlers[n]) = 2
              /\ lhandlers[n][1].kind = "file"
              /\ lhandlers[n][1].target = <<"logs", n>>
              /\ lhandlers[n][2].kind = "console"
              /\ lhandlers[n][2].target = <<"stdout", 0>>
              /\ lhandlers[n][1].id # lhandlers[n][2].id
              /\ n \in logFiles
    /\ \A n, m \in ScriptNames : n # m => HandlerIds(n) \cap HandlerIds(m) = {}

C8_Witness ==
    \E n, m \in ScriptNames :
        /\ n # m
        /\ lreturned[n] >= 2
        /\ lreturned[m] >= 1

====
